---- MODULE Spec2Model ----
(***************************************************************************)
(* A model of the schema-compatibility demo (src/src/main.rs): the two     *)
(* revisions of the record types, the JSON codec (save / load) as the      *)
(* derived serde implementations behave on them, the Database of the       *)
(* database tests and the client/server exchange of run_network.           *)
(*                                                                         *)
(* A String is modelled as a sequence of tokens: the punctuation of a JSON *)
(* object, string literals and bare words (text that is not JSON).         *)
(***************************************************************************)
EXTENDS Naturals, Sequences, FiniteSets, TLC

VARIABLES data, encodedAs, decodeAs, loaded, entries, lastRead, net

vars == <<data, encodedAs, decodeAs, loaded, entries, lastRead, net>>

\* Bound: the number of entries a Database is grown to.
MaxEntries == 3

\* The contents the String fields of the inserted / saved values are drawn from.
StrPool == {"", "Greg"}

(***************************************************************************)
(* Record types: a name and the fields in declaration order.               *)
(***************************************************************************)
v0_GreetingRequest == [name |-> "v0::GreetingRequest", fields |-> <<"name", "favorite_thing">>]

v0_Greeting == [name |-> "v0::Greeting", fields |-> <<"name", "greeting">>]

v1_GreetingRequest_without_song == [name |-> "v1::GreetingRequest", fields |-> <<"name", "favorite_thing">>]

v1_GreetingRequest == [name |-> "v1::GreetingRequest", fields |-> <<"name", "favorite_thing", "favorite_song">>]

v1_Greeting_with_name == [name |-> "v1::Greeting", fields |-> <<"name", "greeting">>]

v1_Greeting == [name |-> "v1::Greeting", fields |-> <<"greeting">>]

ReqOld == [name |-> "ReqOld", fields |-> <<"name">>]

RespOld == [name |-> "RespOld", fields |-> <<"greeting">>]

ReqNew_with_song == [name |-> "ReqNew", fields |-> <<"name", "favorite_song">>]

ReqNew == [name |-> "ReqNew", fields |-> <<"name">>]

RespNew == [name |-> "RespNew", fields |-> <<"greeting">>]

\* The types of the crate's v0 and v1 modules (visible to every test module).
CrateSchemas == {v0_GreetingRequest, v0_Greeting, v1_GreetingRequest, v1_Greeting}

\* The types private to server_client_tests.
ChannelSchemas == {ReqOld, RespOld, ReqNew, RespNew}

Schemas == CrateSchemas \cup ChannelSchemas

NoSchema == [name |-> "", fields |-> <<>>]

FieldSet(T) == {T.fields[i] : i \in 1..Len(T.fields)}

\* The values of type T: one String per field.
Values(T) == [FieldSet(T) -> StrPool]

\* The values put in a Database: every field holds the same content, one value
\* of each type per content of StrPool.
Fixtures(T) == {[f \in FieldSet(T) |-> x] : x \in StrPool}

\* #[derive(Default)]: every String field is empty.
default(T) == [f \in FieldSet(T) |-> ""]

(***************************************************************************)
(* Tokens of a String.                                                     *)
(***************************************************************************)
LBrace == [t |-> "{", s |-> ""]

RBrace == [t |-> "}", s |-> ""]

Colon == [t |-> ":", s |-> ""]

Comma == [t |-> ",", s |-> ""]

Str(x) == [t |-> "str", s |-> x]

Word(x) == [t |-> "word", s |-> x]

(***************************************************************************)
(* Results.                                                                *)
(***************************************************************************)
Ok(v) == [tag |-> "Ok", val |-> v]

Err(e) == [tag |-> "Err", err |-> e]

Panic(m) == [tag |-> "panic", msg |-> m]

NoResult == [tag |-> "none"]

\* serde_json::Error, by what it reports.
Syntax == [kind |-> "syntax", field |-> ""]

MissingField(f) == [kind |-> "missing_field", field |-> f]

DuplicateField(f) == [kind |-> "duplicate_field", field |-> f]

(***************************************************************************)
(* save: serde_json::to_string of a derived Serialize struct writes an    *)
(* object with one member per field, in declaration order.                 *)
(***************************************************************************)
RECURSIVE serialize_fields(_, _, _)
serialize_fields(T, v, i) ==
    IF i > Len(T.fields) THEN <<>>
    ELSE (IF i > 1 THEN <<Comma>> ELSE <<>>)
         \o <<Str(T.fields[i]), Colon, Str(v[T.fields[i]])>>
         \o serialize_fields(T, v, i + 1)

save(T, v) == <<LBrace>> \o serialize_fields(T, v, 1) \o <<RBrace>>

(***************************************************************************)
(* load: serde_json::from_str into a derived Deserialize struct. The       *)
(* object's members are visited left to right; a member whose key is a     *)
(* field of T fills that field (a second one is a duplicate), any other    *)
(* member is skipped; at the closing brace every field of T must have been *)
(* filled, checked in declaration order; then nothing may follow.          *)
(***************************************************************************)
None == [some |-> FALSE, s |-> ""]

Some(x) == [some |-> TRUE, s |-> x]

\* Faulty variant: a field that was not filled takes its default (#[serde(default)]).
missing_fields_defaulted(T, slots) == <<>>

\* The fields of T left unfilled, in declaration order.
missing_fields(T, slots) == SelectSeq(T.fields, LAMBDA f : ~slots[f].some)

\* At the closing brace (token i): the missing-field check, then end of input.
visit_end(T, s, i, slots) ==
    IF missing_fields(T, slots) # <<>> THEN Err(MissingField(Head(missing_fields(T, slots))))
    ELSE IF i < Len(s) THEN Err(Syntax)
    ELSE Ok([f \in FieldSet(T) |-> slots[f].s])

RECURSIVE visit_map(_, _, _, _, _)

UnknownField(f) == [kind |-> "unknown_field", field |-> f]

\* Faulty variant: a member that is no field of T is refused (deny_unknown_fields).
ignore_member_denied(T, s, k, slots) == Err(UnknownField(s[k].s))

\* A member (key at token k) that is no field of T: its value is skipped.
ignore_member(T, s, k, slots) == visit_map(T, s, k + 3, slots, FALSE)

visit_map(T, s, i, slots, first) ==
    IF i > Len(s) THEN Err(Syntax)
    ELSE IF s[i] = RBrace THEN visit_end(T, s, i, slots)
    ELSE IF ~first /\ s[i] # Comma THEN Err(Syntax)
    ELSE LET k == IF first THEN i ELSE i + 1 IN
         IF k > Len(s) \/ s[k].t # "str" THEN Err(Syntax)
         ELSE IF s[k].s \in FieldSet(T) /\ slots[s[k].s].some THEN Err(DuplicateField(s[k].s))
         ELSE IF k + 2 > Len(s) \/ s[k + 1] # Colon \/ s[k + 2].t # "str" THEN Err(Syntax)
         ELSE IF s[k].s \in FieldSet(T)
              THEN visit_map(T, s, k + 3, [slots EXCEPT ![s[k].s] = Some(s[k + 2].s)], FALSE)
              ELSE ignore_member(T, s, k, slots)

load(T, s) ==
    IF Len(s) = 0 \/ s[1] # LBrace THEN Err(Syntax)
    ELSE visit_map(T, s, 2, [f \in FieldSet(T) |-> None], TRUE)

\* What {:?} prints for a struct: Name { field: "value", ... }.
RECURSIVE debug_fields(_, _, _)
debug_fields(T, v, i) ==
    IF i > Len(T.fields) THEN <<>>
    ELSE (IF i > 1 THEN <<Comma>> ELSE <<>>)
         \o <<Word(T.fields[i]), Colon, Str(v[T.fields[i]])>>
         \o debug_fields(T, v, i + 1)

fmt_debug(T, v) == <<Word(T.name), LBrace>> \o debug_fields(T, v, 1) \o <<RBrace>>

(***************************************************************************)
(* Database (database_tests): a vector of saved strings.                   *)
(***************************************************************************)
Database_new == <<>>

\* Faulty variant: the new entry is put in front.
insert_front(db, T, v) == <<save(T, v)>> \o db

insert(db, T, v) == Append(db, save(T, v))

\* iter().map(load).collect::<Result<Vec<_>, _>>(): entry i is loaded only when
\* every entry before it loaded; the first Err ends the iteration. `loads` counts
\* the calls of load.
RECURSIVE collect(_, _, _, _)
collect(db, T, i, acc) ==
    IF i > Len(db) THEN [result |-> Ok(acc), loads |-> i - 1]
    ELSE LET r == load(T, db[i]) IN
         IF r.tag = "Err" THEN [result |-> r, loads |-> i]
         ELSE collect(db, T, i + 1, Append(acc, r.val))

\* Faulty variant: every entry is loaded and the last failure is the one reported.
RECURSIVE collect_all(_, _, _, _, _)
collect_all(db, T, i, acc, failure) ==
    IF i > Len(db)
    THEN [result |-> IF failure.tag = "Err" THEN failure ELSE Ok(acc), loads |-> i - 1]
    ELSE LET r == load(T, db[i]) IN
         IF r.tag = "Err" THEN collect_all(db, T, i + 1, acc, r)
         ELSE collect_all(db, T, i + 1, Append(acc, r.val), failure)

read_all_exhaustive(db, T) == collect_all(db, T, 1, <<>>, NoResult)

read_all(db, T) == collect(db, T, 1, <<>>)

NoRead == [schema |-> NoSchema, out |-> [result |-> NoResult, loads |-> 0]]

(***************************************************************************)
(* Client, Server and run_network (server_client_tests). A handler is one  *)
(* of the four closures of the make_* functions; all four have the type    *)
(* Fn(String) -> Result<String, serde_json::Error>.                        *)
(***************************************************************************)
\* expect(): an Err panics with the message.
expect(r, msg) == IF r.tag = "Err" THEN Panic(msg) ELSE r

v0_client_handle_response(resp) ==
    LET r == expect(load(RespOld, resp), "response should decode") IN
    IF r.tag # "Ok" THEN r
    ELSE Ok(<<Word("Response:")>> \o fmt_debug(RespOld, r.val))

v0_server_handle_request(req) ==
    LET r == expect(load(ReqOld, req), "request should decode") IN
    IF r.tag # "Ok" THEN r
    ELSE Ok(save(RespOld, default(RespOld)))

v1_client_handle_response(resp) ==
    LET r == load(RespNew, resp) IN
    IF r.tag # "Ok" THEN r
    ELSE Ok(<<Word("Response:")>> \o fmt_debug(RespNew, r.val))

v1_server_handle_request(req) ==
    LET r == load(ReqNew, req) IN
    IF r.tag # "Ok" THEN r
    ELSE Ok(save(RespNew, default(RespNew)))

\* The closures of make_v0_client / make_v1_client, and of make_v0_server /
\* make_v1_server.
ClientHandlers == {"v0_client", "v1_client"}

ServerHandlers == {"v0_server", "v1_server"}

\* A Client's or a Server's field holds any closure of the type.
Handlers == ClientHandlers \cup ServerHandlers

\* (*handler)(arg)
call(h, arg) ==
    CASE h = "v0_client" -> v0_client_handle_response(arg)
      [] h = "v0_server" -> v0_server_handle_request(arg)
      [] h = "v1_client" -> v1_client_handle_response(arg)
      [] h = "v1_server" -> v1_server_handle_request(arg)

make_v0_client == [request |-> save(ReqOld, default(ReqOld)), handle_response |-> "v0_client"]

make_v0_server == [handle_request |-> "v0_server"]

make_v1_client == [request |-> save(ReqNew, default(ReqNew)), handle_response |-> "v1_client"]

make_v1_server == [handle_request |-> "v1_server"]

\* Faulty variant: the client's handler is run on the request when the server failed.
run_network_always_responds(client, server) ==
    LET request == client.request
        response == call(server.handle_request, request)
        arg == IF response.tag = "Ok" THEN response.val ELSE request
    IN [result |-> call(client.handle_response, arg),
        server_calls |-> <<request>>,
        client_calls |-> <<arg>>,
        response |-> response]

\* The result of the exchange, with the arguments each handler was called on.
run_network(client, server) ==
    LET request == client.request
        response == call(server.handle_request, request)
    IN IF response.tag # "Ok"
       THEN [result |-> response,
             server_calls |-> <<request>>,
             client_calls |-> <<>>,
             response |-> response]
       ELSE [result |-> call(client.handle_response, response.val),
             server_calls |-> <<request>>,
             client_calls |-> <<response.val>>,
             response |-> response]

\* The strings a Client is built with: what save gives for the values of any type.
Requests == UNION {{save(T, v) : v \in Values(T)} : T \in Schemas}

Clients == [request : Requests, handle_response : Handlers]

Servers == [handle_request : Handlers]

NoExchange ==
    [client |-> [request |-> <<>>, handle_response |-> ""],
     server |-> [handle_request |-> ""],
     out |-> [result |-> NoResult, server_calls |-> <<>>, client_calls |-> <<>>,
              response |-> NoResult]]

(***************************************************************************)
(* State and actions.                                                      *)
(*   data, encodedAs      the string last saved and the type it was saved  *)
(*                        from                                             *)
(*   decodeAs, loaded     the type last loaded as and load's result        *)
(*   entries              Database.entries                                 *)
(*   lastRead             the type and result of the last read_all since   *)
(*                        the last insert                                  *)
(*   net                  the last exchange: client, server, outcome       *)
(***************************************************************************)
Init ==
    /\ data = <<>>
    /\ encodedAs = NoSchema
    /\ decodeAs = NoSchema
    /\ loaded = NoResult
    /\ entries = Database_new
    /\ lastRead = NoRead
    /\ net = NoExchange

Save(T, v) ==
    /\ data' = save(T, v)
    /\ encodedAs' = T
    /\ decodeAs' = NoSchema
    /\ loaded' = NoResult
    /\ UNCHANGED <<entries, lastRead, net>>

Load(T) ==
    /\ decodeAs' = T
    /\ loaded' = load(T, data)
    /\ UNCHANGED <<data, encodedAs, entries, lastRead, net>>

Insert(T, v) ==
    /\ Len(entries) < MaxEntries
    /\ entries' = insert(entries, T, v)
    /\ lastRead' = NoRead
    /\ UNCHANGED <<data, encodedAs, decodeAs, loaded, net>>

ReadAll(T) ==
    /\ lastRead' = [schema |-> T, out |-> read_all(entries, T)]
    /\ UNCHANGED <<data, encodedAs, decodeAs, loaded, entries, net>>

RunNetwork(client, server) ==
    /\ net' = [client |-> client, server |-> server, out |-> run_network(client, server)]
    /\ UNCHANGED <<data, encodedAs, decodeAs, loaded, entries, lastRead>>

NextCodec ==
    \/ \E T \in Schemas : \E v \in Values(T) : Save(T, v)
    \/ \E T \in Schemas : Load(T)

NextStore ==
    \/ \E T \in CrateSchemas : \E v \in Fixtures(T) : Insert(T, v)
    \/ \E T \in CrateSchemas : ReadAll(T)

NextNet == \E client \in Clients : \E server \in Servers : RunNetwork(client, server)

SpecCodec == Init /\ [][NextCodec]_vars

SpecStore == Init /\ [][NextStore]_vars

SpecNet == Init /\ [][NextNet]_vars

(***************************************************************************)
(* Helpers of the properties.                                              *)
(***************************************************************************)
\* The member names of an encoded record, read off its tokens.
Keys(s) == {s[i].s : i \in {j \in 1..Len(s) : s[j].t = "str" /\ j < Len(s) /\ s[j + 1] = Colon}}

\* e is what save gives for some value of type T.
IsSaved(T, e) == \E v \in Values(T) : e = save(T, v)

Min(S) == CHOOSE x \in S : \A y \in S : x <= y

Indices == 1..Len(entries)

(***************************************************************************)
(* C1. Loading an encoded record as a type succeeds if and only if every   *)
(* field of the type is a member of the record: surplus members are        *)
(* ignored, and an absent field gives a missing-field error naming a field *)
(* that is absent.                                                         *)
(***************************************************************************)
C1_LoadSucceedsIffFieldsPresent ==
    (encodedAs # NoSchema /\ decodeAs # NoSchema) =>
        /\ Keys(data) = FieldSet(encodedAs)
        /\ (loaded.tag = "Ok") <=> (FieldSet(decodeAs) \subseteq Keys(data))
        /\ loaded.tag # "Ok" =>
              /\ loaded.tag = "Err"
              /\ loaded.err.kind = "missing_field"
              /\ loaded.err.field \in FieldSet(decodeAs) \ Keys(data)

\* A record with two surplus members is loaded.
C1_Witness ==
    /\ encodedAs = v1_GreetingRequest
    /\ decodeAs = ReqOld
    /\ loaded.tag = "Ok"

C4_RemovedFieldDirections ==
    /\ (encodedAs = v0_Greeting /\ decodeAs = v1_Greeting) =>
          (loaded.tag = "Ok" /\ "name" \in Keys(data))
    /\ (encodedAs = v1_Greeting /\ decodeAs = v0_Greeting) => loaded = Err(MissingField("name"))

C4_Witness ==
    /\ encodedAs = v1_Greeting
    /\ decodeAs = v0_Greeting
    /\ loaded.tag = "Err"

(***************************************************************************)
(* C5 as claimed. With the response handler of a v0 or v1 client and the   *)
(* request handler of a v0 or v1 server, an exchange never ends in a       *)
(* panic: a handler that cannot decode its input makes run_network return  *)
(* Err.                                                                    *)
(***************************************************************************)
C5_DecodeFailureIsReturned ==
    ( /\ net.client.handle_response \in ClientHandlers
      /\ net.server.handle_request \in ServerHandlers ) =>
        net.out.result.tag # "panic"

(***************************************************************************)
(* C6. read_all loads the entries in insertion order: when every entry     *)
(* loads it returns the loaded values, one per entry, in that order;       *)
(* otherwise it returns the error of the first entry that does not load,   *)
(* and no later entry is loaded.                                           *)
(***************************************************************************)
C6_ReadAllFailsFast ==
    lastRead.schema # NoSchema =>
        LET T == lastRead.schema
            out == lastRead.out
            Fails == {i \in Indices : load(T, entries[i]).tag = "Err"}
        IN IF Fails = {}
           THEN /\ out.result.tag = "Ok"
                /\ Len(out.result.val) = Len(entries)
                /\ \A i \in Indices : Ok(out.result.val[i]) = load(T, entries[i])
                /\ out.loads = Len(entries)
           ELSE /\ out.result = load(T, entries[Min(Fails)])
                /\ out.loads = Min(Fails)

\* The second of three entries fails: the third is not loaded.
C6_Witness ==
    /\ Len(entries) = 3
    /\ lastRead.out.result.tag = "Err"
    /\ lastRead.out.loads = 2

(***************************************************************************)
(* C7. In a Database of v0 and v1 Greeting values, read_all as v1 succeeds *)
(* and read_all as v0 fails exactly when a v1 Greeting is stored, at the   *)
(* first such entry; once read_all as v0 fails it fails after every later  *)
(* insert.                                                                 *)
(***************************************************************************)
OnlyGreetings == \A i \in Indices : IsSaved(v0_Greeting, entries[i]) \/ IsSaved(v1_Greeting, entries[i])

FirstV1Greeting == Min({i \in Indices : IsSaved(v1_Greeting, entries[i])})

C7_State ==
    OnlyGreetings =>
        /\ read_all(entries, v1_Greeting).result.tag = "Ok"
        /\ (read_all(entries, v0_Greeting).result.tag = "Err")
              <=> (\E i \in Indices : IsSaved(v1_Greeting, entries[i]))
        /\ (\E i \in Indices : IsSaved(v1_Greeting, entries[i])) =>
              /\ read_all(entries, v0_Greeting).loads = FirstV1Greeting
              /\ read_all(entries, v0_Greeting).result = Err(MissingField("name"))

C7_Step ==
    read_all(entries, v0_Greeting).result.tag = "Err" =>
        read_all(entries', v0_Greeting).result.tag = "Err"

\* C7: the state property at every state and the step property at every step.
C7_GreetingStore == []C7_State /\ [][C7_Step]_vars

\* [v0 greeting, v1 greeting, one more]: the v0 read fails at the second entry.
C7_Witness ==
    /\ Len(entries) = 3
    /\ IsSaved(v0_Greeting, entries[1])
    /\ IsSaved(v1_Greeting, entries[2])
    /\ OnlyGreetings
    /\ lastRead.schema = v0_Greeting
    /\ lastRead.out.result.tag = "Err"
    /\ lastRead.out.loads = 2

(***************************************************************************)
(* C8. The Database is append-only: insert of a value of any type adds     *)
(* exactly its encoding, and nothing else, at the end, and keeps the       *)
(* earlier entries in place; read_all, succeeding or failing, leaves the   *)
(* entries as they are; no step removes or rewrites an entry.              *)
(***************************************************************************)
C8_InsertAppends ==
    \A T \in CrateSchemas : \A v \in Fixtures(T) :
        /\ Len(insert(entries, T, v)) = Len(entries) + 1
        /\ SubSeq(insert(entries, T, v), 1, Len(entries)) = entries
        /\ insert(entries, T, v)[Len(entries) + 1] = save(T, v)

C8_Step ==
    /\ Len(entries') >= Len(entries)
    /\ SubSeq(entries', 1, Len(entries)) = entries
    /\ Len(entries') <= Len(entries) + 1
    /\ Len(entries') = Len(entries) + 1 =>
          \E T \in CrateSchemas : \E v \in Fixtures(T) : entries'[Len(entries')] = save(T, v)
    /\ lastRead' # NoRead => entries' = entries

\* C8: insert appends, and every step keeps or extends the entries.
C8_AppendOnly == []C8_InsertAppends /\ [][C8_Step]_vars

\* A failed read_all of a full Database.
C8_Witness ==
    /\ Len(entries) = MaxEntries
    /\ lastRead.out.result.tag = "Err"
    /\ lastRead.out.loads < Len(entries)

(***************************************************************************)
(* C9. In an exchange the server's handler is called once, on the client's *)
(* request; when it does not return Ok the exchange ends with its outcome  *)
(* and the client's handler is not called; when it returns Ok the client's *)
(* handler is called once, on that response, and its outcome is the        *)
(* outcome of the exchange.                                                *)
(***************************************************************************)
C9_ExchangeOrder ==
    net # NoExchange =>
        LET o == net.out IN
        /\ o.server_calls = <<net.client.request>>
        /\ o.response = call(net.server.handle_request, net.client.request)
        /\ o.response.tag # "Ok" => (o.result = o.response /\ o.client_calls = <<>>)
        /\ o.response.tag = "Ok" =>
              /\ o.client_calls = <<o.response.val>>
              /\ o.result = call(net.client.handle_response, o.response.val)

\* The server returned a decode failure.
C9_Witness ==
    /\ net.out.response.tag = "Err"
    /\ net.out.result.tag = "Err"
    /\ net.out.client_calls = <<>>

(***************************************************************************)
(* C10. The exchange of the v0 client with the v1 server succeeds: the     *)
(* server loads the ReqOld request as ReqNew and the client loads the      *)
(* RespNew response as RespOld.                                            *)
(***************************************************************************)
C10_ServerUpdateIsOk ==
    (net.client = make_v0_client /\ net.server = make_v1_server) =>
        /\ net.out.response = Ok(save(RespNew, default(RespNew)))
        /\ net.out.client_calls = <<save(RespNew, default(RespNew))>>
        /\ net.out.result.tag = "Ok"

C10_Witness ==
    /\ net.client = make_v0_client
    /\ net.server = make_v1_server
    /\ net.out.result.tag = "Ok"

====
